---- MODULE Spec2Model ----
(***************************************************************************)
(* The drinks backend of backend/src/api.py: five route handlers over one  *)
(* table, four of them behind requires_auth.  The route handlers are       *)
(* translated from api.py.  The Drink model (insert/update/delete/short/   *)
(* long, the unique title column) and the requires_auth decorator live in  *)
(* database/models.py and auth/auth.py; they are modelled from the         *)
(* specification's sections 3, 4.1 and 5.                                  *)
(***************************************************************************)
EXTENDS Integers, Sequences, FiniteSets, TLC

VARIABLES drinks, last, pc, req, sess, winner

vars == <<drinks, last, pc, req, sess, winner>>

(***************************************************************************)
(* Bounds and value domains.                                               *)
(***************************************************************************)
MaxId == 2

Ids == 1..MaxId

\* The ids the interleaved updates work on.
ConcIds == 1

ConcIdSet == 1..ConcIds

\* Python's None, and a present value.
None == <<>>
Some(x) == <<x>>

Titles == {"Water", "Latte"}

R1 == << [name |-> "milk", color |-> "white", parts |-> 2],
         [name |-> "coffee", color |-> "brown", parts |-> 1] >>
Recipes == {R1}

OptTitles == {None} \cup {Some(t) : t \in Titles}
OptRecipes == {None} \cup {Some(r) : r \in Recipes}

(***************************************************************************)
(* json.dumps / json.loads on a recipe value: None becomes the text        *)
(* "null", a list becomes the text of an array.                            *)
(***************************************************************************)
JsonNull == [kind |-> "null", items |-> <<>>]

json_dumps(v) ==
    IF v = None THEN JsonNull ELSE [kind |-> "array", items |-> v[1]]

json_loads(t) ==
    IF t.kind = "null" THEN None ELSE Some(t.items)

(***************************************************************************)
(* Request inputs.                                                         *)
(***************************************************************************)
Permissions == {"get:drinks-detail", "post:drinks", "patch:drinks", "delete:drinks"}

PermSets == {{}} \cup {{p} : p \in Permissions} \cup {Permissions}

\* kind: "none" no Authorization header, "invalid" a token that fails
\* verification, "noclaim" a verified token without a permissions claim,
\* "valid" a verified token carrying perms.
Tokens == {[kind |-> k, perms |-> {}] : k \in {"none", "invalid", "noclaim"}}
              \cup {[kind |-> "valid", perms |-> P] : P \in PermSets}

NoToken == [kind |-> "none", perms |-> {}]

\* What request.get_json() meets: "malformed" text that is not JSON,
\* "none" no JSON body or the JSON null, "array" a JSON value that is not an
\* object, "object" a JSON object whose title and recipe members may be absent.
NoBody == [kind |-> "none", title |-> None, recipe |-> None]
Bodies == {[kind |-> k, title |-> None, recipe |-> None] : k \in {"malformed", "none", "array"}}
              \cup {[kind |-> "object", title |-> t, recipe |-> r] : t \in OptTitles, r \in OptRecipes}

(***************************************************************************)
(* The row store: drinks maps each stored id to its row                    *)
(* [title, recipe], recipe being the serialized text.  Reading the table   *)
(* is total; a commit can be refused, and a refused commit writes nothing. *)
(***************************************************************************)
\* Drink.query.all()
query_all(store) == DOMAIN store

\* Drink.query.filter_by(id=drink_id).one_or_none()
one_or_none(store, drink_id) ==
    IF drink_id \in DOMAIN store THEN Some(store[drink_id]) ELSE None

\* The unique constraint on the title column: another row already holds this
\* title.  A row without a title holds none.
UniqueViolation(store, drink_id, title) ==
    /\ title # None
    /\ \E i \in DOMAIN store : i # drink_id /\ store[i].title = title

\* Drink.insert(): add the row and commit; the commit is refused when the
\* title is taken or when the store does not accept it, and then nothing is
\* written.
Drink_insert(store, newid, row, accept) ==
    IF accept /\ ~UniqueViolation(store, newid, row.title)
    THEN [ok |-> TRUE,
          store |-> [i \in DOMAIN store \cup {newid} |->
                        IF i = newid THEN row ELSE store[i]]]
    ELSE [ok |-> FALSE, store |-> store]

\* Drink.update(): commit the row as the handler left it.
Drink_update(store, drink_id, row, accept) ==
    IF accept /\ drink_id \in DOMAIN store /\ ~UniqueViolation(store, drink_id, row.title)
    THEN [ok |-> TRUE, store |-> [store EXCEPT ![drink_id] = row]]
    ELSE [ok |-> FALSE, store |-> store]

\* Drink.delete(): remove the row and commit.
Drink_delete(store, drink_id, accept) ==
    IF accept /\ drink_id \in DOMAIN store
    THEN [ok |-> TRUE, store |-> [i \in DOMAIN store \ {drink_id} |-> store[i]]]
    ELSE [ok |-> FALSE, store |-> store]

\* Drink.long(): id, title and the parsed recipe with every member.
Drink_long(drink_id, row) ==
    [id |-> drink_id, title |-> row.title, recipe |-> json_loads(row.recipe)]

ShortEntries(items) ==
    [k \in DOMAIN items |-> [color |-> items[k].color, parts |-> items[k].parts]]

\* Drink.short(): the same without the ingredient names.
Drink_short(drink_id, row) ==
    [id |-> drink_id, title |-> row.title,
     recipe |-> IF json_loads(row.recipe) = None THEN None
                ELSE Some(ShortEntries(json_loads(row.recipe)[1]))]

(***************************************************************************)
(* The authorization gate.                                                 *)
(***************************************************************************)
\* requires_auth(permission): 0 lets the request through to the handler,
\* otherwise the status code of the AuthError raised.
requires_auth(token, permission) ==
    CASE token.kind \in {"none", "invalid"} -> 401
      [] token.kind = "noclaim" -> 400
      [] token.kind = "valid" /\ permission \notin token.perms -> 403
      [] OTHER -> 0

\* The permission each route's decorator names.
RequiredPermission_swapped(op) ==
    CASE op = "get_drink_details" -> "get:drinks-detail"
      [] op = "post_drink" -> "post:drinks"
      [] op = "patch_drink" -> "post:drinks"
      [] op = "delete_drink" -> "delete:drinks"

RequiredPermission(op) ==
    CASE op = "get_drink_details" -> "get:drinks-detail"
      [] op = "post_drink" -> "post:drinks"
      [] op = "patch_drink" -> "patch:drinks"
      [] op = "delete_drink" -> "delete:drinks"

(***************************************************************************)
(* Responses.  structured is FALSE for the framework's own answer to an    *)
(* exception no handler caught (an HTML error page, not the JSON envelope).*)
(***************************************************************************)
Response(status, structured, success, ds, deleted) ==
    [status |-> status, structured |-> structured, success |-> success,
     drinks |-> ds, delete |-> deleted]

\* @app.errorhandler(AuthError)
handle_auth_error(status_code) == Response(status_code, TRUE, FALSE, {}, None)

\* @app.errorhandler(404)
not_found == Response(404, TRUE, FALSE, {}, None)

\* @app.errorhandler(400)
bad_request == Response(400, TRUE, FALSE, {}, None)

\* An exception raised outside every try block: no errorhandler is registered
\* for it, so the framework answers 500 with its own page.
unhandled == Response(500, FALSE, FALSE, {}, None)

\* request.get_json(): aborts with 400 on text that is not JSON, returns
\* None without a JSON body, else the parsed value.
get_json(body) ==
    IF body.kind = "malformed" THEN [ok |-> FALSE, data |-> NoBody]
    ELSE [ok |-> TRUE, data |-> body]

\* data.get(...) works on a dict only; on None or a list it raises
\* AttributeError.
IsDict(data) == data.kind = "object"

Outcome(resp, store, path, found) ==
    [resp |-> resp, store |-> store, path |-> path, found |-> found]

(***************************************************************************)
(* The route handlers.  Each returns the response, the store it leaves,    *)
(* the branch taken and the row its lookup found.                          *)
(***************************************************************************)
\* get_drinks: every drink in its short form.
get_drinks(store) ==
    Outcome(Response(200, TRUE, TRUE,
                     {Drink_short(i, store[i]) : i \in query_all(store)}, None),
            store, "ok", None)

\* get_drink_details: every drink in its long form.
get_drink_details(store) ==
    Outcome(Response(200, TRUE, TRUE,
                     {Drink_long(i, store[i]) : i \in query_all(store)}, None),
            store, "ok", None)

\* post_drink, the row built from the body.
post_drink_row(data) ==
    [title |-> data.title, recipe |-> json_dumps(data.recipe)]

\* Sensitivity variant: the response holds the created drink only.
post_drink_drinks_single(store, newid) ==
    {Drink_long(i, store[i]) : i \in query_all(store) \cap {newid}}

\* post_drink, the drinks member of the success response.
post_drink_drinks(store, newid) ==
    {Drink_long(i, store[i]) : i \in query_all(store)}

\* Sensitivity variant: the except branch answers as if the insert went through.
post_drink_except_ok == Response(200, TRUE, TRUE, {}, None)

\* post_drink, the except branch.
post_drink_except == Response(500, TRUE, FALSE, {}, None)

post_drink(store, body, newid, accept) ==
    LET parsed == get_json(body)
        data == parsed.data
        ins == Drink_insert(store, newid, post_drink_row(data), accept)
    IN  IF ~parsed.ok THEN Outcome(bad_request, store, "badjson", None)
        ELSE IF ~IsDict(data) THEN Outcome(unhandled, store, "crash", None)
        ELSE IF ins.ok
             THEN Outcome(Response(200, TRUE, TRUE,
                                   post_drink_drinks(ins.store, newid), None),
                          ins.store, "ok", None)
             ELSE Outcome(post_drink_except, store, "except", None)

\* Sensitivity variant: the test of the lookup is inverted.
update_drink_missing_inverted(drink) == drink # None

\* update_drink, "if not drink".
update_drink_missing(drink) == drink = None

\* Sensitivity variant: a member the body omits keeps its stored value.
update_drink_row_keep(drink, data) ==
    [title |-> IF data.title = None THEN drink[1].title ELSE data.title,
     recipe |-> IF data.recipe = None THEN drink[1].recipe ELSE json_dumps(data.recipe)]

\* Sensitivity variant: the recipe is written only when the title is given.
update_drink_row_partial(drink, data) ==
    [title |-> data.title,
     recipe |-> IF data.title = None THEN drink[1].recipe ELSE json_dumps(data.recipe)]

\* update_drink, the row as assigned from the body.
update_drink_row(drink, data) ==
    [title |-> data.title, recipe |-> json_dumps(data.recipe)]

\* update_drink, the drinks member of the success response.
update_drink_drinks(store, drink_id) ==
    {Drink_long(i, store[i]) : i \in query_all(store)}

\* Sensitivity variant: the except branch answers as if the update went through.
update_drink_except_ok == Response(200, TRUE, TRUE, {}, None)

\* update_drink, the except branch.
update_drink_except == Response(500, TRUE, FALSE, {}, None)

\* update_drink, the try block; assigning to a drink that is None raises
\* inside it.
update_drink_try(store, drink_id, drink, data, accept) ==
    LET upd == Drink_update(store, drink_id, update_drink_row(drink, data), accept)
    IN  IF drink # None /\ upd.ok
        THEN Outcome(Response(200, TRUE, TRUE,
                              update_drink_drinks(upd.store, drink_id), None),
                     upd.store, "ok", drink)
        ELSE Outcome(update_drink_except, store, "except", drink)

\* update_drink from request.get_json() on, drink being what the lookup
\* returned.
update_drink_body(store, drink_id, drink, body, accept) ==
    LET parsed == get_json(body)
        data == parsed.data
    IN  IF ~parsed.ok THEN Outcome(bad_request, store, "badjson", drink)
        ELSE IF update_drink_missing(drink) THEN Outcome(not_found, store, "notfound", drink)
        ELSE IF ~IsDict(data) THEN Outcome(unhandled, store, "crash", drink)
        ELSE update_drink_try(store, drink_id, drink, data, accept)

update_drink(store, drink_id, body, accept) ==
    update_drink_body(store, drink_id, one_or_none(store, drink_id), body, accept)

\* Sensitivity variant: the test of the lookup is inverted.
delete_drink_missing_inverted(drink) == drink # None

\* delete_drink, "if not drink".
delete_drink_missing(drink) == drink = None

\* delete_drink, the except branch.
delete_drink_except == Response(500, TRUE, FALSE, {}, None)

\* Sensitivity variant: success is answered without drink.delete().
delete_drink_try_forgot(store, drink_id, drink, accept) ==
    IF drink # None /\ accept
    THEN Outcome(Response(200, TRUE, TRUE, {}, Some(drink_id)), store, "ok", drink)
    ELSE Outcome(delete_drink_except, store, "except", drink)

\* delete_drink, the try block; calling delete on None raises inside it.
delete_drink_try(store, drink_id, drink, accept) ==
    LET del == Drink_delete(store, drink_id, accept)
    IN  IF drink # None /\ del.ok
        THEN Outcome(Response(200, TRUE, TRUE, {}, Some(drink_id)),
                     del.store, "ok", drink)
        ELSE Outcome(delete_drink_except, store, "except", drink)

delete_drink(store, drink_id, accept) ==
    LET drink == one_or_none(store, drink_id)
    IN  IF delete_drink_missing(drink) THEN Outcome(not_found, store, "notfound", drink)
        ELSE delete_drink_try(store, drink_id, drink, accept)

(***************************************************************************)
(* State.  drinks is the table.  last is the request most recently         *)
(* answered: what came in, the table as the request found it (before),     *)
(* whether the store was willing to commit (storeOk), and the response.    *)
(* pc, req, sess and winner belong to the interleaved updates further down.*)
(***************************************************************************)
Procs == {1, 2}

Answered(op, token, drink_id, body, accept, out) ==
    [op |-> op, token |-> token, id |-> drink_id, body |-> body,
     before |-> IF op = "none" THEN <<>> ELSE drinks, storeOk |-> accept, path |-> out.path, found |-> out.found,
     status |-> out.resp.status, structured |-> out.resp.structured,
     success |-> out.resp.success, drinks |-> out.resp.drinks,
     delete |-> out.resp.delete]

\* The gate turned the request away: the view function was not called.
Rejected(op, token, drink_id, code) ==
    Answered(op, token, drink_id, NoBody, TRUE,
             Outcome(handle_auth_error(code), drinks, "auth", None))

NoRequest ==
    Answered("none", NoToken, 0, NoBody, TRUE,
             Outcome(Response(0, TRUE, TRUE, {}, None), <<>>, "none", None))

ConcIdle ==
    /\ pc = [p \in Procs |-> "idle"]
    /\ req = [p \in Procs |-> [id |-> 0, body |-> NoBody]]
    /\ sess = [p \in Procs |-> None]
    /\ winner = [i \in ConcIdSet |-> None]

Init ==
    /\ drinks = <<>>
    /\ last = NoRequest
    /\ ConcIdle

\* The store assigns a new row any id not in use; the table holds at most
\* MaxId rows.
FreeIds == Ids \ DOMAIN drinks

GetDrinks ==
    \E token \in Tokens :
        /\ last' = Answered("get_drinks", token, 0, NoBody, TRUE, get_drinks(drinks))
        /\ UNCHANGED <<drinks, pc, req, sess, winner>>

GetDrinkDetails ==
    \E token \in Tokens :
        LET code == requires_auth(token, RequiredPermission("get_drink_details"))
        IN  /\ last' = IF code # 0 THEN Rejected("get_drink_details", token, 0, code)
                       ELSE Answered("get_drink_details", token, 0, NoBody, TRUE,
                                     get_drink_details(drinks))
            /\ UNCHANGED <<drinks, pc, req, sess, winner>>

PostDrink ==
    \E token \in Tokens :
        LET code == requires_auth(token, RequiredPermission("post_drink"))
        IN  IF code # 0
            THEN /\ last' = Rejected("post_drink", token, 0, code)
                 /\ UNCHANGED <<drinks, pc, req, sess, winner>>
            ELSE \E body \in Bodies, newid \in FreeIds, accept \in BOOLEAN :
                    LET out == post_drink(drinks, body, newid, accept)
                    IN  /\ drinks' = out.store
                        /\ last' = Answered("post_drink", token, 0, body, accept, out)
                        /\ UNCHANGED <<pc, req, sess, winner>>

PatchDrink ==
    \E token \in Tokens, drink_id \in Ids :
        LET code == requires_auth(token, RequiredPermission("patch_drink"))
        IN  IF code # 0
            THEN /\ last' = Rejected("patch_drink", token, drink_id, code)
                 /\ UNCHANGED <<drinks, pc, req, sess, winner>>
            ELSE \E body \in Bodies, accept \in BOOLEAN :
                    LET out == update_drink(drinks, drink_id, body, accept)
                    IN  /\ drinks' = out.store
                        /\ last' = Answered("patch_drink", token, drink_id, body, accept, out)
                        /\ UNCHANGED <<pc, req, sess, winner>>

DeleteDrink ==
    \E token \in Tokens, drink_id \in Ids :
        LET code == requires_auth(token, RequiredPermission("delete_drink"))
        IN  IF code # 0
            THEN /\ last' = Rejected("delete_drink", token, drink_id, code)
                 /\ UNCHANGED <<drinks, pc, req, sess, winner>>
            ELSE \E accept \in BOOLEAN :
                    LET out == delete_drink(drinks, drink_id, accept)
                    IN  /\ drinks' = out.store
                        /\ last' = Answered("delete_drink", token, drink_id, NoBody, accept, out)
                        /\ UNCHANGED <<pc, req, sess, winner>>

Next == GetDrinks \/ GetDrinkDetails \/ PostDrink \/ PatchDrink \/ DeleteDrink

Spec == Init /\ [][Next]_vars

(***************************************************************************)
(* Interleaved updates.  Two requests that passed the patch:drinks gate    *)
(* run update_drink at the same time: the lookup reads the table, the rest *)
(* of the handler works on what the lookup returned and commits against    *)
(* the table as it then stands.  winner[i] is the body of the update that  *)
(* committed last on id i, and whether the row had changed between that    *)
(* update's lookup and its commit (stale).                                 *)
(***************************************************************************)
\* The tables a sequence of creates, updates and deletes can leave.
Stores ==
    UNION {{st \in [D -> {r \in [title : OptTitles, recipe : {json_dumps(v) : v \in OptRecipes}] : TRUE}] :
               \A i, j \in D : i # j /\ st[i].title # None => st[i].title # st[j].title}
           : D \in SUBSET ConcIdSet}

InitConc ==
    /\ drinks \in {st \in Stores : DOMAIN st # {}}
    /\ last = NoRequest
    /\ ConcIdle

\* The request arrives and the lookup runs.
Lookup(p) ==
    /\ pc[p] = "idle"
    /\ \E drink_id \in ConcIdSet, body \in Bodies :
          /\ req' = [req EXCEPT ![p] = [id |-> drink_id, body |-> body]]
          /\ sess' = [sess EXCEPT ![p] = one_or_none(drinks, drink_id)]
    /\ pc' = [pc EXCEPT ![p] = "looked"]
    /\ UNCHANGED <<drinks, last, winner>>

\* The rest of the handler, the commit included; the request is answered.
Commit(p) ==
    /\ pc[p] = "looked"
    /\ \E accept \in BOOLEAN :
          LET out == update_drink_body(drinks, req[p].id, sess[p], req[p].body, accept)
          IN  /\ drinks' = out.store
              /\ winner' = IF out.path = "ok"
                           THEN [winner EXCEPT ![req[p].id] =
                                    Some([body |-> req[p].body,
                                          stale |-> sess[p] # one_or_none(drinks, req[p].id)])]
                           ELSE winner
    /\ pc' = [pc EXCEPT ![p] = "idle"]
    /\ req' = [req EXCEPT ![p] = [id |-> 0, body |-> NoBody]]
    /\ sess' = [sess EXCEPT ![p] = None]
    /\ UNCHANGED last

NextConc == \E p \in Procs : Lookup(p) \/ Commit(p)

SpecConc == InitConc /\ [][NextConc]_vars

(***************************************************************************)
(* Properties.                                                             *)
(***************************************************************************)
GatedOps == {"get_drink_details", "post_drink", "patch_drink", "delete_drink"}

Mutating == {"post_drink", "patch_drink", "delete_drink"}

\* The scope the interface table gives each gated operation.
ScopeOf(op) ==
    CASE op = "get_drink_details" -> "get:drinks-detail"
      [] op = "post_drink" -> "post:drinks"
      [] op = "patch_drink" -> "patch:drinks"
      [] op = "delete_drink" -> "delete:drinks"

Authorized == last.op \in GatedOps /\ last.token.kind = "valid" /\ ScopeOf(last.op) \in last.token.perms

HandlerDidNotRun ==
    /\ drinks = last.before
    /\ ~last.success
    /\ last.drinks = {}
    /\ last.delete = None

\* The title is one another row of the table held when the request came in.
TitleTaken(title, except_id) ==
    /\ title # None
    /\ \E i \in DOMAIN last.before : i # except_id /\ last.before[i].title = title

RowOf(body) == [title |-> body.title, recipe |-> json_dumps(body.recipe)]

\* C1: a gated operation without an Authorization header answers 401, with a
\* valid token that lacks the operation's scope answers 403; either way the
\* table is as it was and the response carries no drink and no deleted id.
\* The public list answers 200 whatever the token.
C1_GateRejects ==
    /\ (last.op \in GatedOps /\ last.token.kind = "none")
          => (last.status = 401 /\ HandlerDidNotRun)
    /\ (last.op \in GatedOps /\ last.token.kind = "valid"
            /\ ScopeOf(last.op) \notin last.token.perms)
          => (last.status = 403 /\ HandlerDidNotRun)
    /\ last.op = "get_drinks"
          => (last.status = 200 /\ last.success
                /\ {d.id : d \in last.drinks} = DOMAIN drinks)

C1_Witness ==
    /\ last.op = "patch_drink"
    /\ last.token.kind = "valid"
    /\ last.token.perms = {"post:drinks"}
    /\ last.status = 403
    /\ last.id \in DOMAIN drinks

C4_DeleteMissing ==
    (last.op = "delete_drink" /\ Authorized /\ last.id \notin DOMAIN last.before)
        => (last.status = 404 /\ ~last.success /\ drinks = last.before)

C4_Witness ==
    /\ last.op = "delete_drink"
    /\ last.id \notin DOMAIN last.before
    /\ last.status = 404
    /\ DOMAIN drinks # {}

\* C5: an authorized delete of a stored id, the store committing, answers
\* 200 with success and delete = that id; the row is gone, every other row
\* is as it was, and neither list run on the table afterwards shows the id.
C5_DeleteRemoves ==
    (last.op = "delete_drink" /\ Authorized /\ last.id \in DOMAIN last.before
            /\ last.storeOk)
        => /\ last.status = 200
           /\ last.success
           /\ last.delete = Some(last.id)
           /\ DOMAIN drinks = DOMAIN last.before \ {last.id}
           /\ \A i \in DOMAIN drinks : drinks[i] = last.before[i]
           /\ \A d \in get_drinks(drinks).resp.drinks : d.id # last.id
           /\ \A d \in get_drink_details(drinks).resp.drinks : d.id # last.id

C5_Witness ==
    /\ last.op = "delete_drink"
    /\ last.status = 200
    /\ last.id \in DOMAIN last.before
    /\ DOMAIN drinks # {}

CommitRefused ==
    \/ ~last.storeOk
    \/ last.op = "post_drink" /\ TitleTaken(last.body.title, 0)
    \/ last.op = "patch_drink" /\ TitleTaken(last.body.title, last.id)

\* The request just answered got as far as its commit.
ReachedCommit ==
    /\ last.op \in Mutating
    /\ Authorized
    /\ last.op # "delete_drink" => last.body.kind = "object"
    /\ last.op # "post_drink" => last.id \in DOMAIN last.before

\* The change the request asked for is in the table, and nothing else changed.
Persisted ==
    CASE last.op = "post_drink" ->
            \E n \in DOMAIN drinks \ DOMAIN last.before :
                /\ DOMAIN drinks = DOMAIN last.before \cup {n}
                /\ drinks[n] = RowOf(last.body)
                /\ \A i \in DOMAIN last.before : drinks[i] = last.before[i]
      [] last.op = "patch_drink" ->
            /\ DOMAIN drinks = DOMAIN last.before
            /\ last.id \in DOMAIN drinks
            /\ drinks[last.id] = RowOf(last.body)
            /\ \A i \in DOMAIN drinks \ {last.id} : drinks[i] = last.before[i]
      [] last.op = "delete_drink" ->
            /\ DOMAIN drinks = DOMAIN last.before \ {last.id}
            /\ \A i \in DOMAIN drinks : drinks[i] = last.before[i]
      [] OTHER -> drinks = last.before

\* C7: a create, update or delete whose commit is refused answers 500 and
\* leaves the table exactly as it was; one that answers success has its
\* whole change, and nothing else, in the table.
C7_AllOrNothing ==
    /\ (ReachedCommit /\ CommitRefused)
          => (last.status = 500 /\ ~last.success /\ drinks = last.before)
    /\ (last.op \in Mutating /\ (last.success \/ last.status = 200)) => Persisted
    /\ (last.op \in Mutating /\ last.status # 200) => drinks = last.before

C7_Witness ==
    /\ last.op = "patch_drink"
    /\ ReachedCommit
    /\ CommitRefused
    /\ last.status = 500
    /\ RowOf(last.body) # last.before[last.id]
    /\ drinks = last.before

DocumentedStatus == {200, 400, 401, 403, 404, 422, 500}

\* C8: every answer is the JSON envelope with a documented status, and
\* success is false on every answer but 200.
C8_AllStructured ==
    last.op # "none"
        => /\ last.structured
           /\ last.status \in DocumentedStatus
           /\ last.status # 200 => ~last.success

\* C9: an update that answers 200 leaves null in the stored title when the
\* body has no title and the text of null in the stored recipe when the body
\* has no recipe; a body with a free title and no recipe, the store
\* committing, answers 200 and the row then holds that title and a null
\* recipe.
C9_OmittedBecomesNull ==
    (last.op = "patch_drink" /\ Authorized /\ last.id \in DOMAIN last.before
            /\ last.body.kind = "object")
        => /\ last.status = 200 =>
                /\ last.body.title = None => drinks[last.id].title = None
                /\ last.body.recipe = None => drinks[last.id].recipe = JsonNull
                /\ last.body.recipe = None => json_loads(drinks[last.id].recipe) = None
           /\ (last.body.title # None /\ last.body.recipe = None /\ ~CommitRefused)
                => /\ last.status = 200
                   /\ drinks[last.id] = [title |-> last.body.title, recipe |-> JsonNull]

C9_Witness ==
    /\ last.op = "patch_drink"
    /\ last.status = 200
    /\ last.body.title # None
    /\ last.body.recipe = None
    /\ last.id \in DOMAIN last.before
    /\ last.before[last.id].recipe # JsonNull
    /\ drinks[last.id].recipe = JsonNull

====
